---- MODULE Spec2Model ----
(***************************************************************************)
(* Model of the Kinkstore PIM core:                                        *)
(*   - ShopifyClient (src/lib/shopify/client.ts): rate limit estimate,     *)
(*     query with retry/backoff, cursor pagination;                        *)
(*   - the Google Drive import handler (src/app/api/gdrive/import/route.ts)*)
(*     with its per-file failure isolation and the media_buckets upsert.   *)
(* Time is in integer milliseconds (Date.now()).                           *)
(***************************************************************************)
EXTENDS Integers, Naturals, Sequences, FiniteSets, TLC

VARIABLES
    now,            \* Date.now()
    rateLimitState, \* ShopifyClient.rateLimitState
    source,         \* the paginated remote collection served by the endpoint
    qPc,            \* position of the running query call
    qRetries,       \* options.retries of the running call
    qCost,          \* options.estimatedCost of the running call
    qAfter,         \* variables.after of the running call
    qCaller,        \* who awaits the call: "direct" or "paginate"
    qAttempt,       \* loop variable attempt
    qLastError,     \* local lastError
    qResult,        \* value returned / error raised by the call
    qLog,           \* events of the running call, in order
    pgPc,           \* position of the paginate generator
    cursor,         \* paginate local cursor
    hasNextPage,    \* paginate local hasNextPage
    yielded,        \* pages yielded by the generator so far
    pgAfters,       \* the `after` argument of every query made by paginate
    imPc,           \* position of the Drive import POST handler
    imStatus,       \* HTTP status of its response (0: none yet)
    files,          \* the list returned by listFolderTree
    idx,            \* index of the file the loop is at
    results,        \* local results
    bucketCache,    \* local bucketCache
    mediaBuckets,   \* rows of table media_buckets
    mediaAssets,    \* rows of table media_assets, in insertion order
    storage,        \* keys of the objects put into the storage bucket
    productIdUnique,\* constraint media_buckets_product_id_key is in place
    trace,          \* per file of the current run: the steps performed
    runs,           \* summary of every completed run
    cancelledAt,    \* request.signal: 0 while not aborted, else the value of
                    \* idx when the client aborted the request
    valPc,          \* position of the call of a function of products/validate.ts
    valArg,         \* its argument
    valResult,      \* the value it returned
    users,          \* table public.users: rows of auth_user_id and role
    authUser,       \* Shopify import request: the user of the session, or Null
    shopifyStatus,  \* status of the answer to the last Shopify import request
    importsStarted  \* number of calls of importAllProducts

clientVars == <<now, rateLimitState, source, qPc, qRetries, qCost, qAfter,
                qCaller, qAttempt, qLastError, qResult, qLog>>
pgVars == <<pgPc, cursor, hasNextPage, yielded, pgAfters>>
imVars == <<imPc, imStatus, files, idx, results, bucketCache, mediaBuckets,
            mediaAssets, storage, productIdUnique, trace, runs, cancelledAt>>
valVars == <<valPc, valArg, valResult>>
adminVars == <<users, authUser, shopifyStatus, importsStarted>>

----------------------------------------------------------------------------
(* Bounds of the model *)

MaxRetries == 3
MaxPages == 3
MaxPageRequests == 4
MaxFiles == 3
MaxRerunFiles == 2

(* Program constants *)
DefaultAvailable == 1000
DefaultRestoreRate == 50
MaxPoints == 1000
SafetyMarginMs == 100
DefaultCost == 100
DefaultRetries == 3
ThrottleWaitMs == 2000
BackoffBaseMs == 1000

Null == "null"
NoError == "none"
NullCursor == 0

Min(a, b) == IF a <= b THEN a ELSE b

CeilDiv(a, b) == IF a % b = 0 THEN a \div b ELSE (a \div b) + 1

RECURSIVE Pow2(_)
Pow2(n) == IF n = 0 THEN 1 ELSE 2 * Pow2(n - 1)

RECURSIVE JoinMessages(_)
JoinMessages(errs) ==
    IF Len(errs) = 0 THEN ""
    ELSE IF Len(errs) = 1 THEN errs[1].message
    ELSE errs[1].message \o ", " \o JoinMessages(Tail(errs))

----------------------------------------------------------------------------
(* RateLimitState and the two private helpers *)

InitialRateLimitState ==
    [available |-> DefaultAvailable, restoreRate |-> DefaultRestoreRate, lastUpdate |-> 0]

NoThrottleStatus == [present |-> FALSE]

\* An updateRateLimit that takes the reported values and keeps lastUpdate
updateRateLimitKeepsTime(rs, ext, t) ==
    IF ext.present
    THEN [available |-> ext.currentlyAvailable, restoreRate |-> ext.restoreRate,
          lastUpdate |-> rs.lastUpdate]
    ELSE rs

\* updateRateLimit(extensions): the state after the call, made at time t
updateRateLimit(rs, ext, t) ==
    IF ext.present
    THEN [available |-> ext.currentlyAvailable, restoreRate |-> ext.restoreRate, lastUpdate |-> t]
    ELSE rs

\* estimated available points, in thousandths of a point (elapsed is in ms)
EstimatedMilli(rs, t) ==
    Min(MaxPoints * 1000, rs.available * 1000 + (t - rs.lastUpdate) * rs.restoreRate)

\* Lines 76-84: the delay waitForRateLimit computes for its timer, in ms;
\* 0 when the estimate covers the cost and no timer is set. Line 84 passes
\* waitTime + 100 to setTimeout, with
\* waitTime = (cost - estimated) / restoreRate * 1000 not rounded (Math.ceil
\* is applied only to the number printed at line 83); a timer counts whole
\* milliseconds, the fraction of the delay is dropped. With restoreRate = 0
\* the division yields Infinity: the delay is not finite.
ComputedWait(rs, cost, t) ==
    LET deficit == cost * 1000 - EstimatedMilli(rs, t)
    IN IF deficit <= 0 THEN [finite |-> TRUE, ms |-> 0]
       ELSE IF rs.restoreRate = 0 THEN [finite |-> FALSE, ms |-> 0]
       ELSE [finite |-> TRUE, ms |-> (deficit \div rs.restoreRate) + SafetyMarginMs]

\* setTimeout with a delay that does not fit a 32-bit integer sets a timer of
\* 1 ms
TimerOverflowMs == 1

\* A waitForRateLimit that sleeps for the safety margin even when the
\* estimate covers the cost
waitForRateLimitAlwaysSleeps(rs, cost, t) ==
    LET w == ComputedWait(rs, cost, t)
    IN IF ~w.finite THEN TimerOverflowMs
       ELSE IF w.ms = 0 THEN SafetyMarginMs
       ELSE w.ms

\* waitForRateLimit(cost): the time in ms the call sleeps
waitForRateLimit(rs, cost, t) ==
    LET w == ComputedWait(rs, cost, t)
    IN IF w.finite THEN w.ms ELSE TimerOverflowMs

----------------------------------------------------------------------------
(* The endpoint: pages served by cursor, and the responses it can give *)

\* Cursors are opaque tokens; page i hands out the token i, the token of the
\* first page again, or null.
PageSizes == {0, 20}

CursorsOf(i) == {NullCursor, 1, i}

PagesAt(i, last) ==
    { [size |-> n, hasNextPage |-> h, endCursor |-> c, id |-> i] :
        n \in PageSizes, h \in (IF last THEN BOOLEAN ELSE {TRUE}), c \in CursorsOf(i) }

\* Collections of k pages; only the last page may report hasNextPage = false
\* (no request can reach a page behind such a page).
RECURSIVE SourcesOfLen(_, _)
SourcesOfLen(k, i) ==
    IF i = k
    THEN { <<p>> : p \in PagesAt(k, TRUE) }
    ELSE { <<p>> \o rest : p \in PagesAt(i, FALSE), rest \in SourcesOfLen(k, i + 1) }

Sources == UNION { SourcesOfLen(k, 1) : k \in 1..MaxPages }

\* The page the endpoint serves for `after`: the first page for null, else the
\* page following the one that handed out the cursor.
RECURSIVE PageIndexAfter(_, _, _)
PageIndexAfter(pages, after, i) ==
    IF i > Len(pages) THEN 0
    ELSE IF pages[i].endCursor = after THEN i + 1
    ELSE PageIndexAfter(pages, after, i + 1)

EmptyLastPage == [size |-> 0, hasNextPage |-> FALSE, endCursor |-> NullCursor, id |-> 0]

ServePage(pages, after) ==
    LET i == IF after = NullCursor THEN 1 ELSE PageIndexAfter(pages, after, 1)
    IN IF i >= 1 /\ i <= Len(pages) THEN pages[i] ELSE EmptyLastPage

ThrottledError == [message |-> "Throttled", code |-> "THROTTLED"]
UserError == [message |-> "Field missing", code |-> "BAD_USER_INPUT"]
PlainError == [message |-> "Internal", code |-> NoError]

ErrorLists ==
    { <<>>, <<ThrottledError>>, <<UserError>>, <<UserError, PlainError>>,
      <<UserError, ThrottledError>> }

ThrottleStatuses ==
    { NoThrottleStatus,
      [present |-> TRUE, currentlyAvailable |-> 40, restoreRate |-> 50],
      [present |-> TRUE, currentlyAvailable |-> 900, restoreRate |-> 100],
      [present |-> TRUE, currentlyAvailable |-> 0, restoreRate |-> 30] }

\* Reports at and beyond the ends of the ranges: nothing restored, more than
\* the 1000 points of the estimate's cap, a negative balance
ExtremeThrottleStatuses ==
    { [present |-> TRUE, currentlyAvailable |-> 0, restoreRate |-> 0],
      [present |-> TRUE, currentlyAvailable |-> 2000, restoreRate |-> 50],
      [present |-> TRUE, currentlyAvailable |-> -10, restoreRate |-> 50] }

HttpStatuses == {429, 500}

Responses ==
    { [kind |-> "network"] }
    \cup { [kind |-> "http", status |-> s] : s \in HttpStatuses }
    \cup { [kind |-> "json", hasData |-> d, errors |-> e, throttle |-> x] :
             d \in BOOLEAN, e \in ErrorLists, x \in ThrottleStatuses }

HasThrottled(errs) == \E i \in 1..Len(errs) : errs[i].code = "THROTTLED"

\* Classification of one response by the body of the try block (lines 100-137)
Outcome(resp) ==
    IF resp.kind = "network" THEN "network"
    ELSE IF resp.kind = "http" THEN "http"
    ELSE IF Len(resp.errors) > 0
         THEN IF HasThrottled(resp.errors) THEN "throttled" ELSE "graphql"
    ELSE IF ~resp.hasData THEN "nodata"
    ELSE "data"

\* The Error thrown inside the try block for a response
ThrownError(resp) ==
    IF resp.kind = "network" THEN "fetch failed"
    ELSE IF resp.kind = "http" THEN IF resp.status = 429 THEN "HTTP 429" ELSE "HTTP 500"
    ELSE IF Len(resp.errors) > 0 THEN "GraphQL Error: " \o JoinMessages(resp.errors)
    ELSE "No data in response"

----------------------------------------------------------------------------
(* ShopifyClient.query *)

RateCheckEvent(w) == [type |-> "rateCheck", ms |-> w]
RequestEvent(after, resp) ==
    [type |-> "request", ms |-> 0, after |-> after, outcome |-> Outcome(resp),
     error |-> IF Outcome(resp) \in {"data", "throttled"} THEN NoError ELSE ThrownError(resp),
     throttle |-> IF resp.kind = "json" THEN resp.throttle ELSE NoThrottleStatus]
SleepEvent(kind, ms) == [type |-> kind, ms |-> ms]

\* Line 142: Math.pow(2, attempt) * 1000
BackoffMsConstant(attempt) == BackoffBaseMs
BackoffMs(attempt) == Pow2(attempt) * BackoffBaseMs

\* Line 141: attempt < retries - 1
ShouldBackoffAlways(attempt, retries) == attempt < retries
ShouldBackoff(attempt, retries) == attempt < retries - 1

\* Lines 93-99 for a call query(q, {after}, {estimatedCost: cost, retries}):
\* the rate-limit wait, then the first evaluation of the loop condition.
BeginQuery(caller, retries, cost, after) ==
    LET w == waitForRateLimit(rateLimitState, cost, now)
    IN /\ now' = now + w
       /\ qLog' = <<RateCheckEvent(w)>>
       /\ qCaller' = caller
       /\ qRetries' = retries
       /\ qCost' = cost
       /\ qAfter' = after
       /\ qAttempt' = 0
       /\ qLastError' = NoError
       /\ IF 0 < retries
          THEN qPc' = "attempt" /\ qResult' = Null
          ELSE qPc' = "raised" /\ qResult' = "Unknown error"
       /\ UNCHANGED <<rateLimitState, source>>

\* A direct call of query by application code
QueryStart(retries, cost) ==
    /\ pgPc = "idle"
    /\ qPc = "idle"
    /\ BeginQuery("direct", retries, cost, NullCursor)
    /\ UNCHANGED <<pgVars, imVars, valVars, adminVars>>

\* A loop that runs while attempt <= retries
NextIterationOneMore(lastError) ==
    /\ qAttempt' = qAttempt + 1
    /\ qLastError' = lastError
    /\ IF qAttempt + 1 <= qRetries
       THEN qPc' = "attempt" /\ qResult' = Null
       ELSE /\ qPc' = "raised"
            /\ qResult' = IF lastError = NoError THEN "Unknown error" ELSE lastError

\* Lines 146-149: attempt++, the loop condition, and the throw after the loop
NextIteration(lastError) ==
    /\ qAttempt' = qAttempt + 1
    /\ qLastError' = lastError
    /\ IF qAttempt + 1 < qRetries
       THEN qPc' = "attempt" /\ qResult' = Null
       ELSE /\ qPc' = "raised"
            /\ qResult' = IF lastError = NoError THEN "Unknown error" ELSE lastError

\* Lines 138-146: the catch block for an error thrown inside the try block
CatchError(resp, rs) ==
    LET backoff == BackoffMs(qAttempt)
        wait == ShouldBackoff(qAttempt, qRetries)
        sleeps == IF wait THEN <<SleepEvent("backoff", backoff)>> ELSE <<>>
    IN /\ rateLimitState' = rs
       /\ now' = now + (IF wait THEN backoff ELSE 0)
       /\ qLog' = qLog \o <<RequestEvent(qAfter, resp)>> \o sleeps
       /\ NextIteration(ThrownError(resp))
       /\ UNCHANGED <<source, qRetries, qCost, qAfter, qCaller>>

\* fetch rejects, or the response is not ok (lines 101-112)
QueryTransportFailure(resp) ==
    /\ qPc = "attempt"
    /\ Outcome(resp) \in {"network", "http"}
    /\ CatchError(resp, rateLimitState)
    /\ UNCHANGED <<pgVars, imVars, valVars, adminVars>>

\* errors with a THROTTLED entry (lines 114-128)
QueryThrottled(resp) ==
    /\ qPc = "attempt"
    /\ Outcome(resp) = "throttled"
    /\ rateLimitState' = updateRateLimit(rateLimitState, resp.throttle, now)
    /\ now' = now + ThrottleWaitMs
    /\ qLog' = qLog \o <<RequestEvent(qAfter, resp), SleepEvent("throttle", ThrottleWaitMs)>>
    /\ NextIteration(qLastError)
    /\ UNCHANGED <<source, qRetries, qCost, qAfter, qCaller>>
    /\ UNCHANGED <<pgVars, imVars, valVars, adminVars>>

\* errors without a THROTTLED entry, or neither errors nor data (lines 114-135)
QueryApplicationError(resp) ==
    /\ qPc = "attempt"
    /\ Outcome(resp) \in {"graphql", "nodata"}
    /\ CatchError(resp, updateRateLimit(rateLimitState, resp.throttle, now))
    /\ UNCHANGED <<pgVars, imVars, valVars, adminVars>>

\* data and no errors (lines 114-137)
QuerySuccess(resp) ==
    /\ qPc = "attempt"
    /\ Outcome(resp) = "data"
    /\ rateLimitState' = updateRateLimit(rateLimitState, resp.throttle, now)
    /\ qLog' = qLog \o <<RequestEvent(qAfter, resp)>>
    /\ qPc' = "returned"
    /\ qResult' = ServePage(source, qAfter)
    /\ UNCHANGED <<now, source, qRetries, qCost, qAfter, qCaller, qAttempt, qLastError>>
    /\ UNCHANGED <<pgVars, imVars, valVars, adminVars>>

----------------------------------------------------------------------------
(* The Drive import: tables, storage and the per-file loop body *)

NoRow == [id |-> 0]

\* Table products: the rows the import can find an owner in
Products == { [id |-> 1, sku_label |-> "A"], [id |-> 2, sku_label |-> "B"] }

\* Files of the Drive tree; path is the list of its '/'-separated segments
FilePool ==
    { [id |-> "f1", path |-> <<"A", "a1.jpg">>],
      [id |-> "f2", path |-> <<"A", "sub", "a2.jpg">>],
      [id |-> "f3", path |-> <<"B", "b1.jpg">>],
      [id |-> "f4", path |-> <<"X", "x1.jpg">>],
      [id |-> "f5", path |-> <<"", "e1.jpg">>] }

\* The files of the pool with an owned, an other owned and an ownerless key
RerunPool == { f \in FilePool : f.id \in {"f1", "f3", "f4"} }

RECURSIVE FileLists(_, _)
FileLists(pool, n) ==
    IF n = 0 THEN { <<>> }
    ELSE FileLists(pool, n - 1) \cup
         { Append(l, f) : l \in { m \in FileLists(pool, n - 1) : Len(m) = n - 1 }, f \in pool }

\* Lines 57-58: file.path.split('/')[0]
SkuLabel(file) == file.path[1]

\* Lines 67-71: select ... eq('sku_label', skuLabel).single(): the row when
\* exactly one matches, no data otherwise
LookupProduct(skuLabel) ==
    LET rows == { p \in Products : p.sku_label = skuLabel }
    IN IF Cardinality(rows) = 1 THEN CHOOSE p \in rows : TRUE ELSE NoRow

Owned(file) == LookupProduct(SkuLabel(file)) # NoRow

\* Lines 80-94: upsert on conflict product_id, returning the row. The row
\* with that product_id is updated in place, else a new row is inserted.
UpsertedRow(rows, product, skuLabel, freshId) ==
    LET hit == { r \in rows : r.product_id = product.id }
    IN IF hit # {}
       THEN [id |-> (CHOOSE r \in hit : TRUE).id, product_id |-> product.id, sku_label |-> skuLabel]
       ELSE [id |-> freshId, product_id |-> product.id, sku_label |-> skuLabel]

UpsertAsInsert(rows, product, skuLabel, freshId) ==
    rows \cup { [id |-> freshId, product_id |-> product.id, sku_label |-> skuLabel] }
Upsert(rows, product, skuLabel, freshId) ==
    { r \in rows : r.product_id # product.id } \cup { UpsertedRow(rows, product, skuLabel, freshId) }

FreshId(rows) == Cardinality(rows) + 1

\* An insert that leaves the table alone when it has a row with that file_key
InsertAssetOnce(rows, row) ==
    IF \E k \in 1..Len(rows) : rows[k].file_key = row.file_key THEN rows
    ELSE Append(rows, row)

\* Lines 121-137: supabase.from('media_assets').insert(row)
InsertAsset(rows, row) == Append(rows, row)

\* Lines 142-147: the catch block of one file
RecordFailureSilently(res, path, message) == [res EXCEPT !.failed = @ + 1]
RecordFailure(res, path, message) ==
    [res EXCEPT !.failed = @ + 1, !.errors = Append(@, [path |-> path, message |-> message])]

\* Lines 73-76
RecordSkipAsFailure(res) == [res EXCEPT !.failed = @ + 1]
RecordSkip(res) == [res EXCEPT !.skippedNoProduct = @ + 1]

\* Line 113
RecordUploadNothing(res) == res
RecordUpload(res) == [res EXCEPT !.uploaded = @ + 1]

\* Line 141
RecordAsset(res) == [res EXCEPT !.assetsCreated = @ + 1]

\* Lines 100-105
RecordBucket(res) == [res EXCEPT !.bucketsCreated = @ + 1]

Faults == {"none", "download", "lookup", "upsert", "upload", "insert"}

InitialResults(n) ==
    [total |-> n, uploaded |-> 0, failed |-> 0, errors |-> <<>>,
     assetsCreated |-> 0, bucketsCreated |-> 0, skippedNoProduct |-> 0]

CachedKeys == { c.sku : c \in bucketCache }

\* Line 49: const bucketCache = new Map(), made by every request
KeptBucketCache(previous) == previous
FreshBucketCache(previous) == {}

\* An iteration that uploads the file whether or not its bucket was resolved
StepsOfUploadAnyway(file, fault) ==
    LET sku == SkuLabel(file)
        product == IF fault = "lookup" THEN NoRow ELSE LookupProduct(sku)
        resolve == IF sku \in CachedKeys THEN <<>>
                   ELSE IF product = NoRow THEN <<"lookup">>
                   ELSE <<"lookup", "upsert">>
        resolved == \/ sku \in CachedKeys
                    \/ product # NoRow /\ fault # "upsert" /\ productIdUnique
    IN IF fault = "download" \/ sku = "" THEN <<"download">>
       ELSE IF ~resolved THEN <<"download">> \o resolve \o <<"upload">>
       ELSE IF fault = "upload" THEN <<"download">> \o resolve \o <<"upload">>
       ELSE <<"download">> \o resolve \o <<"upload", "insert">>

\* The steps one iteration of the loop (lines 54-149) performs on `file` when
\* the step named by `fault` fails, up to and including the step that ends it
StepsOf(file, fault) ==
    LET sku == SkuLabel(file)
        product == IF fault = "lookup" THEN NoRow ELSE LookupProduct(sku)
        resolve == IF sku \in CachedKeys THEN <<>>
                   ELSE IF product = NoRow THEN <<"lookup">>
                   ELSE <<"lookup", "upsert">>
        resolved == \/ sku \in CachedKeys
                    \/ product # NoRow /\ fault # "upsert" /\ productIdUnique
    IN IF fault = "download" \/ sku = "" THEN <<"download">>
       ELSE IF ~resolved THEN <<"download">> \o resolve
       ELSE IF fault = "upload" THEN <<"download">> \o resolve \o <<"upload">>
       ELSE <<"download">> \o resolve \o <<"upload", "insert">>

Performed(steps, step) == \E i \in 1..Len(steps) : steps[i] = step

\* The step at which the iteration ends abnormally ("none": it does not)
FailedAt(file, fault) ==
    LET sku == SkuLabel(file)
        steps == StepsOf(file, fault)
        last == steps[Len(steps)]
    IN IF fault = "download" THEN "download"
       ELSE IF sku = "" THEN "sku"
       ELSE IF last = "lookup" THEN (IF fault = "lookup" THEN "lookup" ELSE "none")
       ELSE IF last = "upsert" THEN "upsert"
       ELSE IF last = "upload" THEN "upload"
       ELSE IF fault = "insert" THEN "insert"
       ELSE "none"

OutcomeOf(file, fault) ==
    LET steps == StepsOf(file, fault)
    IN IF steps[Len(steps)] = "lookup" THEN "skipped"
       ELSE IF FailedAt(file, fault) = "none" THEN "succeeded"
       ELSE "failed"

MessageOf(failedAt) ==
    IF failedAt = "download" THEN "Download failed"
    ELSE IF failedAt = "sku" THEN "Missing SKU label in path"
    ELSE IF failedAt = "upsert" THEN "Bucket upsert failed"
    ELSE IF failedAt = "upload" THEN "Upload failed"
    ELSE "Asset insert failed"

----------------------------------------------------------------------------
(* The Drive import POST handler *)

InitImportIdle ==
    /\ imPc = "idle"
    /\ imStatus = 0
    /\ files = <<>>
    /\ idx = 1
    /\ results = InitialResults(0)
    /\ bucketCache = {}
    /\ mediaBuckets = {}
    /\ mediaAssets = <<>>
    /\ storage = {}
    /\ productIdUnique = TRUE
    /\ trace = <<>>
    /\ runs = <<>>
    /\ cancelledAt = 0

\* A handler in which the first failed file ends the request with status 500
FinishOrAbort(nextIdx, nFiles, summary) ==
    IF summary.results.failed > 0
    THEN imPc' = "rejected" /\ imStatus' = 500 /\ runs' = runs
    ELSE IF nextIdx > nFiles
    THEN imPc' = "done" /\ imStatus' = 200 /\ runs' = Append(runs, summary)
    ELSE imPc' = "loop" /\ imStatus' = 0 /\ runs' = runs

\* Lines 151-156: the loop is over, the report is the response
FinishIfDone(nextIdx, nFiles, summary) ==
    IF nextIdx > nFiles
    THEN imPc' = "done" /\ imStatus' = 200 /\ runs' = Append(runs, summary)
    ELSE imPc' = "loop" /\ imStatus' = 0 /\ runs' = runs

\* A handler without the check of the user
ImportStartAnyCaller(req, listing) ==
    /\ imPc \in {"idle", "done", "rejected"}
    /\ Len(runs) < 2
    /\ trace' = <<>>
    /\ bucketCache' = FreshBucketCache(bucketCache)
    /\ idx' = 1
    /\ cancelledAt' = 0
    /\ IF ~req.folderId \/ ~req.bucket
       THEN /\ imPc' = "rejected" /\ imStatus' = 400
            /\ UNCHANGED <<files, results, runs>>
       ELSE IF ~req.listOk
       THEN /\ imPc' = "rejected" /\ imStatus' = 500
            /\ UNCHANGED <<files, results, runs>>
       ELSE /\ files' = listing
            /\ results' = InitialResults(Len(listing))
            /\ FinishIfDone(1, Len(listing),
                 [buckets |-> Cardinality(mediaBuckets), assets |-> Len(mediaAssets),
                  results |-> InitialResults(Len(listing)), trace |-> <<>>])
    /\ UNCHANGED <<mediaBuckets, mediaAssets, storage, productIdUnique>>
    /\ UNCHANGED <<clientVars, pgVars, valVars, adminVars>>

\* Lines 13-53: the request is checked, the tree is listed, results and the
\* bucket cache are created
ImportStart(req, listing) ==
    /\ imPc \in {"idle", "done", "rejected"}
    /\ Len(runs) < 2
    /\ trace' = <<>>
    /\ bucketCache' = FreshBucketCache(bucketCache)
    /\ idx' = 1
    /\ cancelledAt' = 0
    /\ IF ~req.folderId \/ ~req.bucket
       THEN /\ imPc' = "rejected" /\ imStatus' = 400
            /\ UNCHANGED <<files, results, runs>>
       ELSE IF ~req.user
       THEN /\ imPc' = "rejected" /\ imStatus' = 401
            /\ UNCHANGED <<files, results, runs>>
       ELSE IF ~req.listOk
       THEN /\ imPc' = "rejected" /\ imStatus' = 500
            /\ UNCHANGED <<files, results, runs>>
       ELSE /\ files' = listing
            /\ results' = InitialResults(Len(listing))
            /\ FinishIfDone(1, Len(listing),
                 [buckets |-> Cardinality(mediaBuckets), assets |-> Len(mediaAssets),
                  results |-> InitialResults(Len(listing)), trace |-> <<>>])
    /\ UNCHANGED <<mediaBuckets, mediaAssets, storage, productIdUnique>>
    /\ UNCHANGED <<clientVars, pgVars, valVars, adminVars>>

\* Lines 54-149: one iteration of the loop, for files[idx]
ImportFile(fault) ==
    /\ imPc = "loop"
    /\ LET file == files[idx]
           sku == SkuLabel(file)
           steps == StepsOf(file, fault)
           outcome == OutcomeOf(file, fault)
           failedAt == FailedAt(file, fault)
           upserted == Performed(steps, "upsert") /\ failedAt # "upsert"
           product == LookupProduct(sku)
           buckets1 == IF upserted THEN Upsert(mediaBuckets, product, sku, FreshId(mediaBuckets))
                       ELSE mediaBuckets
           row == CHOOSE r \in buckets1 : r.product_id = product.id
           cache1 == IF upserted THEN bucketCache \cup { [sku |-> sku, id |-> row.id] }
                     ELSE bucketCache
           bucketId == (CHOOSE c \in cache1 : c.sku = sku).id
           uploadedObj == Performed(steps, "upload") /\ failedAt # "upload"
           inserted == Performed(steps, "insert") /\ failedAt # "insert"
           r1 == IF upserted THEN RecordBucket(results) ELSE results
           r2 == IF uploadedObj THEN RecordUpload(r1) ELSE r1
           r3 == IF inserted THEN RecordAsset(r2) ELSE r2
           r4 == IF outcome = "skipped" THEN RecordSkip(r3)
                 ELSE IF outcome = "failed" THEN RecordFailure(r3, file.path, MessageOf(failedAt))
                 ELSE r3
           entry == [file |-> idx, steps |-> steps, failedAt |-> failedAt, outcome |-> outcome]
       IN /\ mediaBuckets' = buckets1
          /\ bucketCache' = cache1
          /\ storage' = IF uploadedObj THEN storage \cup {file.path} ELSE storage
          /\ mediaAssets' = IF inserted
                            THEN InsertAsset(mediaAssets, [media_bucket_id |-> bucketId, file_key |-> file.path])
                            ELSE mediaAssets
          /\ results' = r4
          /\ trace' = Append(trace, entry)
          /\ idx' = idx + 1
          /\ FinishIfDone(idx + 1, Len(files),
               [buckets |-> Cardinality(buckets1), assets |-> Len(mediaAssets'),
                results |-> r4, trace |-> Append(trace, entry)])
    /\ UNCHANGED <<files, productIdUnique, cancelledAt>>
    /\ UNCHANGED <<clientVars, pgVars, valVars, adminVars>>

\* Migration 00009: DROP CONSTRAINT IF EXISTS media_buckets_product_id_key.
\* From then on an upsert ON CONFLICT (product_id) is rejected by the database.
\* Migrations are applied while no import is running.
ApplyMigration00009 ==
    /\ imPc # "loop"
    /\ productIdUnique
    /\ productIdUnique' = FALSE
    /\ UNCHANGED <<imPc, imStatus, files, idx, results, bucketCache, mediaBuckets,
                   mediaAssets, storage, trace, runs, cancelledAt>>
    /\ UNCHANGED <<clientVars, pgVars, valVars, adminVars>>

Requests == [folderId : BOOLEAN, bucket : BOOLEAN, user : BOOLEAN, listOk : BOOLEAN]

\* The five files of the example: file 3 has no owner
ExampleFiles ==
    << [id |-> "f1", path |-> <<"A", "a1.jpg">>],
       [id |-> "f2", path |-> <<"A", "sub", "a2.jpg">>],
       [id |-> "f4", path |-> <<"X", "x1.jpg">>],
       [id |-> "f3", path |-> <<"B", "b1.jpg">>],
       [id |-> "f1", path |-> <<"A", "a1.jpg">>] >>


----------------------------------------------------------------------------
(* Specification of direct query calls *)

Costs == {100, 1000, 2000}

InitClient ==
    /\ now = 0
    /\ rateLimitState = InitialRateLimitState
    /\ qPc = "idle"
    /\ qRetries = DefaultRetries
    /\ qCost = DefaultCost
    /\ qAfter = NullCursor
    /\ qCaller = "direct"
    /\ qAttempt = 0
    /\ qLastError = NoError
    /\ qResult = Null
    /\ qLog = <<>>

InitPaginate ==
    /\ pgPc = "idle"
    /\ cursor = NullCursor
    /\ hasNextPage = TRUE
    /\ yielded = <<>>
    /\ pgAfters = <<>>

SinglePage == <<[size |-> 20, hasNextPage |-> FALSE, endCursor |-> NullCursor, id |-> 1]>>

\* No function of products/validate.ts has been called
InitValidateIdle ==
    /\ valPc = "idle"
    /\ valArg = Null
    /\ valResult = Null

\* No request for a Shopify import was made; public.users has no rows
InitAdminIdle ==
    /\ users = {}
    /\ authUser = Null
    /\ shopifyStatus = 0
    /\ importsStarted = 0

vars == <<clientVars, pgVars, imVars, valVars, adminVars>>

Init ==
    /\ InitClient
    /\ InitPaginate
    /\ InitImportIdle
    /\ InitValidateIdle
    /\ InitAdminIdle
    /\ source = SinglePage

Next ==
    \/ \E r \in 0..MaxRetries, c \in Costs : QueryStart(r, c)
    \/ \E resp \in Responses : QueryTransportFailure(resp)
    \/ \E resp \in Responses : QueryThrottled(resp)
    \/ \E resp \in Responses : QueryApplicationError(resp)
    \/ \E resp \in Responses : QuerySuccess(resp)

Spec == Init /\ [][Next]_vars

----------------------------------------------------------------------------
(* Specification of waitForRateLimit: a call of query made at any time after
   any observation of the budget *)

\* The budget states a client can hold: the initial one and those set by
\* updateRateLimit from a response
Budgets ==
    { InitialRateLimitState }
    \cup { updateRateLimit(InitialRateLimitState, x, 0) :
              x \in ThrottleStatuses \cup ExtremeThrottleStatuses }

\* Milliseconds elapsed since the observation when query is called
ElapsedTimes == {0, 300, 1000, 5000}

InitRateLimit ==
    /\ rateLimitState \in Budgets
    /\ now \in ElapsedTimes
    /\ qPc = "idle"
    /\ qRetries = DefaultRetries
    /\ qCost = DefaultCost
    /\ qAfter = NullCursor
    /\ qCaller = "direct"
    /\ qAttempt = 0
    /\ qLastError = NoError
    /\ qResult = Null
    /\ qLog = <<>>
    /\ InitPaginate
    /\ InitImportIdle
    /\ InitValidateIdle
    /\ InitAdminIdle
    /\ source = SinglePage

NextRateLimit == \E r \in 0..MaxRetries, c \in Costs : QueryStart(r, c)

SpecRateLimit == InitRateLimit /\ [][NextRateLimit]_vars

----------------------------------------------------------------------------
(* Specifications of the Drive import: one run, and a run followed by a re-run *)

InitImport ==
    /\ InitClient
    /\ InitPaginate
    /\ InitImportIdle
    /\ InitValidateIdle
    /\ InitAdminIdle
    /\ source = SinglePage

\* The tree does not change between the runs of one behaviour
Listing(pool) == IF files = <<>> /\ runs = <<>> THEN pool ELSE {files}

NextImport ==
    \/ \E req \in Requests, l \in Listing(FileLists(FilePool, MaxFiles) \cup {ExampleFiles}) :
          Len(runs) < 1 /\ ImportStart(req, l)
    \/ \E fault \in Faults : ImportFile(fault)
    \/ ApplyMigration00009

SpecImport == InitImport /\ [][NextImport]_vars

NextReimport ==
    \/ \E req \in Requests, l \in Listing(FileLists(RerunPool, MaxRerunFiles)) : ImportStart(req, l)
    \/ \E fault \in Faults : ImportFile(fault)
    \/ ApplyMigration00009

SpecReimport == InitImport /\ [][NextReimport]_vars

\* The client aborts the request while the handler is in its loop:
\* request.signal becomes aborted. No line of the handler reads request.signal.
AbortRequest ==
    /\ imPc = "loop"
    /\ cancelledAt = 0
    /\ cancelledAt' = idx
    /\ UNCHANGED <<imPc, imStatus, files, idx, results, bucketCache, mediaBuckets,
                   mediaAssets, storage, productIdUnique, trace, runs>>
    /\ UNCHANGED <<clientVars, pgVars, valVars, adminVars>>

NextAbort ==
    \/ \E req \in Requests, l \in Listing(FileLists(RerunPool, MaxRerunFiles)) :
          Len(runs) < 1 /\ ImportStart(req, l)
    \/ \E fault \in Faults : ImportFile(fault)
    \/ AbortRequest

SpecAbort == InitImport /\ [][NextAbort]_vars

----------------------------------------------------------------------------
(* ShopifyClient.paginate *)

\* First pull of the generator: lines 162-164
PaginateStart ==
    /\ pgPc = "idle"
    /\ qPc = "idle"
    /\ pgPc' = "loop"
    /\ cursor' = NullCursor
    /\ hasNextPage' = TRUE
    /\ yielded' = <<>>
    /\ pgAfters' = <<>>
    /\ UNCHANGED <<clientVars, imVars, valVars, adminVars>>

\* Lines 166-171: the loop condition holds and this.query is called with
\* {first: pageSize, after: cursor} and the default options
PaginateRequest ==
    /\ pgPc = "loop"
    /\ hasNextPage
    /\ Len(pgAfters) < MaxPageRequests
    /\ BeginQuery("paginate", DefaultRetries, DefaultCost, cursor)
    /\ pgPc' = "awaiting"
    /\ pgAfters' = Append(pgAfters, cursor)
    /\ UNCHANGED <<cursor, hasNextPage, yielded>>
    /\ UNCHANGED <<imVars, valVars, adminVars>>

\* Line 174: nodes.length > 0
ShouldYield(page) == page.size > 0

\* Line 179: hasNextPage = pageInfo.hasNextPage
ContinueAfterNonEmpty(page) == page.hasNextPage /\ page.size > 0
ContinueAfter(page) == page.hasNextPage

\* Line 180: cursor = pageInfo.endCursor
NextCursorKeep(page, cur) == cur
NextCursor(page, cur) == page.endCursor

\* Lines 173-181: the query returned; yield the nodes if any, take over
\* pageInfo, and evaluate the loop condition
PaginateResume ==
    /\ pgPc = "awaiting"
    /\ qPc = "returned"
    /\ yielded' = IF ShouldYield(qResult) THEN Append(yielded, qResult.id) ELSE yielded
    /\ hasNextPage' = ContinueAfter(qResult)
    /\ cursor' = NextCursor(qResult, cursor)
    /\ pgPc' = IF ContinueAfter(qResult) THEN "loop" ELSE "done"
    /\ qPc' = "idle"
    /\ UNCHANGED <<now, rateLimitState, source, qRetries, qCost, qAfter, qCaller,
                   qAttempt, qLastError, qResult, qLog, pgAfters>>
    /\ UNCHANGED <<imVars, valVars, adminVars>>

\* The awaited query raised: the error leaves the generator
PaginateRaise ==
    /\ pgPc = "awaiting"
    /\ qPc = "raised"
    /\ pgPc' = "raised"
    /\ qPc' = "idle"
    /\ UNCHANGED <<now, rateLimitState, source, qRetries, qCost, qAfter, qCaller,
                   qAttempt, qLastError, qResult, qLog>>
    /\ UNCHANGED <<cursor, hasNextPage, yielded, pgAfters>>
    /\ UNCHANGED <<imVars, valVars, adminVars>>

\* Responses of the endpoint during a pagination walk
PaginateResponses ==
    { [kind |-> "network"],
      [kind |-> "json", hasData |-> TRUE, errors |-> <<>>, throttle |-> NoThrottleStatus] }

InitPg ==
    /\ InitClient
    /\ InitPaginate
    /\ InitImportIdle
    /\ InitValidateIdle
    /\ InitAdminIdle
    /\ source \in Sources

NextPg ==
    \/ PaginateStart
    \/ PaginateRequest
    \/ PaginateResume
    \/ PaginateRaise
    \/ \E resp \in PaginateResponses : QueryTransportFailure(resp)
    \/ \E resp \in PaginateResponses : QuerySuccess(resp)

SpecPaginate == InitPg /\ [][NextPg]_vars

----------------------------------------------------------------------------
(* Observations on the event log of the running query call *)

RequestEvents(log) == SelectSeq(log, LAMBDA e : e.type = "request")
BackoffEvents(log) == SelectSeq(log, LAMBDA e : e.type = "backoff")
ThrottleWaits(log) == SelectSeq(log, LAMBDA e : e.type = "throttle")

AllOutcomesIn(log, S) ==
    \A i \in 1..Len(log) : log[i].type = "request" => log[i].outcome \in S

TransportOutcomes == {"network", "http"}

\* C1: with retries >= 1, a call all of whose responses are THROTTLED never
\* fails: THROTTLED responses consume no attempt slot, so the call is still
\* retrying (the statement of the claim; the code violates it).
C1_ThrottledNeverExhausts ==
    (qRetries >= 1 /\ AllOutcomesIn(qLog, {"throttled"})) => qPc # "raised"

\* C2: a response with non-throttling errors, or with neither errors nor
\* data, is terminal: the call raises that error right after that request,
\* with no backoff wait and no further request (the statement of the claim;
\* the code violates it).
C2_ApplicationErrorTerminal ==
    \A i \in 1..Len(qLog) :
        (qLog[i].type = "request" /\ qLog[i].outcome \in {"graphql", "nodata"})
            => /\ i = Len(qLog)
               /\ qPc = "raised"
               /\ qResult = qLog[i].error

\* C3: with retries = 3, two transport/HTTP failures followed by data return
\* that data after exactly 3 requests and exactly 2 backoff waits of 1000 ms
\* then 2000 ms; in general the backoff wait after the failed attempt i
\* (counted from 0) is 2^i * 1000 ms.
C3_FailTwiceThenSucceed ==
    /\ \A j \in 1..Len(qLog) :
          qLog[j].type = "backoff" =>
              qLog[j].ms = Pow2(Len(RequestEvents(SubSeq(qLog, 1, j))) - 1) * 1000
    /\ (/\ qPc = "returned"
        /\ qRetries = 3
        /\ Len(RequestEvents(qLog)) = 3
        /\ RequestEvents(qLog)[1].outcome \in TransportOutcomes
        /\ RequestEvents(qLog)[2].outcome \in TransportOutcomes)
       => /\ qResult = ServePage(source, qAfter)
          /\ [i \in 1..Len(BackoffEvents(qLog)) |-> BackoffEvents(qLog)[i].ms] = <<1000, 2000>>
          /\ [i \in 1..Len(qLog) |-> qLog[i].type]
                = <<"rateCheck", "request", "backoff", "request", "backoff", "request">>

C3_Witness ==
    /\ qPc = "returned"
    /\ qRetries = 3
    /\ Len(RequestEvents(qLog)) = 3
    /\ RequestEvents(qLog)[1].outcome = "http"
    /\ RequestEvents(qLog)[2].outcome = "network"
    /\ RequestEvents(qLog)[3].outcome = "data"
    /\ qResult = SinglePage[1]

\* C4: with retries = n >= 1 and every attempt ending in a transport/HTTP
\* failure, the call issues exactly n requests, waits only between consecutive
\* attempts (none after the last) and raises the error of the last attempt.
C4_ExhaustionRaisesLastError ==
    (qPc = "raised" /\ qRetries >= 1 /\ AllOutcomesIn(qLog, TransportOutcomes))
        => /\ Len(RequestEvents(qLog)) = qRetries
           /\ Len(qLog) = 2 * qRetries
           /\ \A i \in 1..qRetries : qLog[2 * i].type = "request"
           /\ \A i \in 1..(qRetries - 1) : qLog[2 * i + 1].type = "backoff"
           /\ qResult = qLog[Len(qLog)].error

C4_Witness ==
    /\ qPc = "raised"
    /\ qRetries = 3
    /\ AllOutcomesIn(qLog, TransportOutcomes)
    /\ Len(RequestEvents(qLog)) = 3
    /\ RequestEvents(qLog)[1].error = "fetch failed"
    /\ RequestEvents(qLog)[2].error = "HTTP 429"
    /\ qResult = "HTTP 500"

----------------------------------------------------------------------------
(* Observations on a pagination walk *)

\* Number of queries of the walk that have returned a page to the generator
Answered == IF pgPc \in {"awaiting", "raised"} THEN Len(pgAfters) - 1 ELSE Len(pgAfters)

\* The page returned to the j-th query of the walk
Served(j) == ServePage(source, pgAfters[j])

RECURSIVE NonEmptyIds(_)
NonEmptyIds(n) ==
    IF n = 0 THEN <<>>
    ELSE IF Served(n).size > 0 THEN Append(NonEmptyIds(n - 1), Served(n).id)
    ELSE NonEmptyIds(n - 1)

\* A source of k non-empty pages, each but the last handing out its own cursor
\* with hasNextPage = true, the last reporting hasNextPage = false
OrderedNonEmptySource(pages) ==
    /\ \A i \in 1..Len(pages) : pages[i].size > 0
    /\ \A i \in 1..(Len(pages) - 1) : pages[i].hasNextPage /\ pages[i].endCursor = i
    /\ ~pages[Len(pages)].hasNextPage

\* C8: over a source of k non-empty pages whose last page reports
\* hasNextPage = false, paginate yields exactly those k pages in order; the
\* first request carries after = null, every later request carries the
\* endCursor of the previous response, and no request follows the response
\* with hasNextPage = false.
C8_PaginateWalksSource ==
    /\ Len(pgAfters) >= 1 => pgAfters[1] = NullCursor
    /\ \A j \in 1..(Len(pgAfters) - 1) :
          /\ pgAfters[j + 1] = Served(j).endCursor
          /\ Served(j).hasNextPage
    /\ (pgPc = "done" /\ OrderedNonEmptySource(source))
          => /\ yielded = [i \in 1..Len(source) |-> i]
             /\ pgAfters = [i \in 1..Len(source) |-> IF i = 1 THEN NullCursor ELSE source[i - 1].endCursor]

C8_Witness ==
    /\ pgPc = "done"
    /\ Len(source) = 3
    /\ OrderedNonEmptySource(source)
    /\ yielded = <<1, 2, 3>>
    /\ pgAfters = <<NullCursor, 1, 2>>

\* C9: a response with zero nodes and hasNextPage = true does not end the
\* walk: the empty page is not yielded, the cursor moves to its endCursor and
\* the loop goes on; every non-empty page served is yielded, in order.
C9_EmptyPageContinues ==
    /\ yielded = NonEmptyIds(Answered)
    /\ (pgPc = "loop" /\ Answered >= 1)
          => /\ hasNextPage
             /\ cursor = Served(Answered).endCursor
    /\ pgPc = "done" => ~Served(Answered).hasNextPage
    /\ \A j \in 1..Answered :
          (Served(j).size = 0 /\ Served(j).hasNextPage) => pgPc # "done" \/ j < Answered

C9_Witness ==
    /\ pgPc = "done"
    /\ Len(source) = 3
    /\ source[2].size = 0
    /\ source[2].hasNextPage
    /\ pgAfters = <<NullCursor, 1, 2>>
    /\ yielded = <<1, 3>>

----------------------------------------------------------------------------
(* Observations on a Drive import run *)

\* Files of the list, by what the run's steps did on them
FullySucceeded == { i \in 1..Len(trace) : Owned(files[i]) /\ trace[i].failedAt = "none" }
InsertFailed == { i \in 1..Len(trace) : Owned(files[i]) /\ trace[i].failedAt = "insert" }
Ownerless == { i \in 1..Len(trace) : ~Owned(files[i]) }

\* No step fails except metadata inserts, and every path has a grouping key
OnlyInsertFailures ==
    /\ \A i \in 1..Len(trace) : trace[i].failedAt \in {"none", "insert"}
    /\ \A i \in 1..Len(files) : SkuLabel(files[i]) # ""

RECURSIVE PathsOfFailed(_)
PathsOfFailed(n) ==
    IF n = 0 THEN <<>>
    ELSE IF trace[n].outcome = "failed" THEN Append(PathsOfFailed(n - 1), files[n].path)
    ELSE PathsOfFailed(n - 1)

ErrorPaths == [i \in 1..Len(results.errors) |-> results.errors[i].path]

\* C5 (as claimed): in a run where only ownerless keys and failing metadata
\* inserts occur, both uploaded and assetsCreated equal the number of files
\* whose three sub-steps succeeded.
C5_BothCountersCountSuccesses ==
    (imPc = "done" /\ OnlyInsertFailures /\ Ownerless # {} /\ InsertFailed # {})
        => /\ results.uploaded = Cardinality(FullySucceeded)
           /\ results.assetsCreated = Cardinality(FullySucceeded)

\* C5 (amended): in a run where only ownerless keys and failing metadata
\* inserts occur, every file is processed, assetsCreated is the number of
\* files whose three sub-steps succeeded, uploaded is the number of files
\* whose upload succeeded (the fully succeeded ones and those whose insert
\* failed), skippedNoProduct the number of ownerless files, failed the number
\* of files whose insert failed, and errors holds one entry per failed file,
\* with its path. In the 5-file example: assetsCreated 3, uploaded 4,
\* skipped 1, failed 1.
C5_ReportCountsPerOutcome ==
    (imPc = "done" /\ OnlyInsertFailures)
        => /\ Len(trace) = Len(files)
           /\ results.total = Len(files)
           /\ results.assetsCreated = Cardinality(FullySucceeded)
           /\ results.uploaded = Cardinality(FullySucceeded) + Cardinality(InsertFailed)
           /\ results.skippedNoProduct = Cardinality(Ownerless)
           /\ results.failed = Cardinality(InsertFailed)
           /\ ErrorPaths = PathsOfFailed(Len(trace))
           /\ (files = ExampleFiles /\ InsertFailed = {4})
                 => /\ results.assetsCreated = 3
                    /\ results.uploaded = 4
                    /\ results.skippedNoProduct = 1
                    /\ results.failed = 1
                    /\ ErrorPaths = << <<"B", "b1.jpg">> >>

C5_Witness ==
    /\ imPc = "done"
    /\ OnlyInsertFailures
    /\ files = ExampleFiles
    /\ InsertFailed = {4}
    /\ Ownerless = {3}
    /\ trace[5].outcome = "succeeded"
    /\ results.assetsCreated = 3
    /\ results.uploaded = 4
    /\ Len(results.errors) = 1

\* C6 (as claimed): at the end of a run uploaded + skippedNoProduct + failed
\* equals total.
C6_UploadedSkippedFailedSum ==
    imPc = "done" => results.uploaded + results.skippedNoProduct + results.failed = results.total

\* C6 (amended): every file reaches exactly one terminal outcome, counted
\* once, with assetsCreated as the success counter: after each file the sum
\* assetsCreated + skippedNoProduct + failed is the number of files processed
\* so far, and at the end of the run it is total. (uploaded also counts the
\* files whose metadata insert failed after the upload.)
C6_OneOutcomePerFile ==
    imPc \in {"loop", "done"}
        => /\ results.assetsCreated + results.skippedNoProduct + results.failed = idx - 1
           /\ Len(trace) = idx - 1
           /\ results.assetsCreated = Cardinality({ i \in 1..Len(trace) : trace[i].outcome = "succeeded" })
           /\ results.skippedNoProduct = Cardinality({ i \in 1..Len(trace) : trace[i].outcome = "skipped" })
           /\ results.failed = Cardinality({ i \in 1..Len(trace) : trace[i].outcome = "failed" })
           /\ imPc = "done" => idx - 1 = results.total

C6_Witness ==
    /\ imPc = "done"
    /\ results.total = 3
    /\ results.assetsCreated = 1
    /\ results.skippedNoProduct = 1
    /\ results.failed = 1
    /\ results.uploaded = 2

\* C10 (as claimed; the code violates it): a file whose grouping key has no
\* owner product is recorded as skipped, never as failed, and no upsert,
\* upload or insert is performed for it.
C10_OwnerlessIsSkipped ==
    \A i \in 1..Len(trace) :
        ~Owned(files[i])
            => /\ trace[i].outcome = "skipped"
               /\ ~Performed(trace[i].steps, "upsert")
               /\ ~Performed(trace[i].steps, "upload")
               /\ ~Performed(trace[i].steps, "insert")

----------------------------------------------------------------------------
(* Observations on a run followed by a re-run *)

OwnedKeys == { SkuLabel(files[i]) : i \in { j \in 1..Len(files) : Owned(files[j]) } }

CleanRun(summary) == \A i \in 1..Len(summary.trace) : summary.trace[i].failedAt = "none"

----------------------------------------------------------------------------
(* Observations on the end of a run *)

\* C11: once the file list has been obtained the run always ends with a
\* report, whatever happens to the files: while the loop runs there is a next
\* file and one trace entry per file handled so far, a failed download,
\* lookup, upsert, upload or insert only adds to the trace and the loop goes
\* on, the response of a finished run is 200 with the report of all files,
\* and status 500 is only the answer to a listing that failed, before any
\* file was handled.
C11_RunAlwaysReports ==
    /\ imPc = "loop" => /\ idx <= Len(files)
                        /\ Len(trace) = idx - 1
                        /\ imStatus = 0
    /\ imPc = "done" => /\ imStatus = 200
                        /\ Len(trace) = Len(files)
                        /\ results.total = Len(files)
                        /\ Len(runs) >= 1
                        /\ runs[Len(runs)].results = results
    /\ imStatus = 500 => /\ imPc = "rejected"
                         /\ trace = <<>>
                         /\ idx = 1

C11_Witness ==
    /\ imPc = "done"
    /\ imStatus = 200
    /\ Len(files) = 3
    /\ trace[1].failedAt = "download"
    /\ trace[2].failedAt = "upload"
    /\ trace[3].failedAt = "insert"
    /\ results.failed = 3
    /\ Len(results.errors) = 3

\* C12 (as claimed; the code violates it): the import honours a cancellation
\* signal between files: once the request has been aborted the file in
\* progress at that moment may finish, no further file is started, and the
\* run returns the partial report.
C12_NoFileStartedAfterAbort ==
    cancelledAt > 0 => Len(trace) <= cancelledAt

\* C13 (as claimed; the code violates it): at the end of every run, for every
\* file of the list, an object is in storage at the file's key exactly when a
\* media_assets row with that file_key has been inserted: no stored object
\* without its row, no row without its object.
C13_ObjectIffAssetRecord ==
    imPc = "done"
        => \A i \in 1..Len(files) :
              (files[i].path \in storage)
                  <=> (\E k \in 1..Len(mediaAssets) : mediaAssets[k].file_key = files[i].path)

----------------------------------------------------------------------------
(* Observations on the rate limit *)

\* C14 (as claimed; the code violates it): every request of a query call, the
\* re-issues after a backoff or a throttling wait included, is preceded by a
\* rate-limit check made after the previous attempt ended: between any two
\* requests of the log, and before the first one, there is a rateCheck event.
C14_EveryRequestAfterRateCheck ==
    \A j \in 1..Len(qLog) :
        qLog[j].type = "request"
            => \E i \in 1..(j - 1) :
                  /\ qLog[i].type = "rateCheck"
                  /\ \A k \in (i + 1)..(j - 1) : qLog[k].type # "request"

\* The state is the one right after the rate-limit check of a call
JustChecked == qPc # "idle" /\ Len(qLog) = 1

\* C15: when the estimated budget covers the cost waitForRateLimit sets no
\* timer (the wait is 0 and the clock does not move), and in every case the
\* call leaves available, restoreRate and lastUpdate as they were.
C15_NoWaitWhenCoveredAndBudgetKept ==
    [][ (qPc = "idle" /\ qPc' # "idle")
          => /\ rateLimitState' = rateLimitState
             /\ qLog'[1].type = "rateCheck"
             /\ (EstimatedMilli(rateLimitState, now) >= qCost' * 1000)
                   => (now' = now /\ qLog'[1].ms = 0) ]_vars

C15_Witness ==
    /\ JustChecked
    /\ rateLimitState = [available |-> 40, restoreRate |-> 50, lastUpdate |-> 0]
    /\ now = 5000
    /\ qCost = 100
    /\ qLog[1].ms = 0

\* C16 (as claimed; the code violates it): with estimated = min(1000,
\* available + elapsed seconds * restoreRate), whenever cost > estimated the
\* wait is strictly positive, equals ceil((cost - estimated) / restoreRate *
\* 1000) + 100 ms, and a call made earlier with the same cost and budget
\* waits at least as long.
C16_WaitIsCeilPlusMargin ==
    JustChecked
        => LET w == qLog[1].ms
               called == now - w
               deficit == qCost * 1000 - EstimatedMilli(rateLimitState, called)
           IN (deficit > 0 /\ rateLimitState.restoreRate > 0)
                 => /\ w > 0
                    /\ w = CeilDiv(deficit, rateLimitState.restoreRate) + SafetyMarginMs
                    /\ \A t \in ElapsedTimes :
                          t <= called => waitForRateLimit(rateLimitState, qCost, t) >= w

\* C17: whenever query returns a payload, the budget afterwards is what the
\* throttleStatus of that response reported (available = currentlyAvailable,
\* restoreRate = restoreRate, lastUpdate = the time of the response) when the
\* response carries one, and is the budget held before the response otherwise.
C17_BudgetFollowsReturnedResponse ==
    [][ (qPc = "attempt" /\ qPc' = "returned")
          => LET ev == qLog'[Len(qLog')]
             IN /\ ev.type = "request"
                /\ ev.outcome = "data"
                /\ IF ev.throttle.present
                   THEN rateLimitState' =
                           [available |-> ev.throttle.currentlyAvailable,
                            restoreRate |-> ev.throttle.restoreRate,
                            lastUpdate |-> now']
                   ELSE rateLimitState' = rateLimitState ]_vars

C17_Witness ==
    /\ qPc = "returned"
    /\ Len(qLog) = 4
    /\ qLog[2].outcome = "network"
    /\ qLog[4].outcome = "data"
    /\ qLog[4].throttle = [present |-> TRUE, currentlyAvailable |-> 40, restoreRate |-> 50]
    /\ now = 1000
    /\ rateLimitState = [available |-> 40, restoreRate |-> 50, lastUpdate |-> 1000]

----------------------------------------------------------------------------
(* Observations on the bucket counter and the bucket cache *)

\* C18 (as claimed; the code violates it): bucketsCreated counts the
\* media_buckets rows the run created: in every run it equals the number of
\* rows added to the table by that run, so a second run over an unchanged
\* list and table reports bucketsCreated = 0.
C18_BucketsCreatedCountsNewRows ==
    /\ Len(runs) >= 1 => runs[1].results.bucketsCreated = runs[1].buckets
    /\ Len(runs) = 2 => runs[2].results.bucketsCreated = runs[2].buckets - runs[1].buckets
    /\ (Len(runs) = 2 /\ CleanRun(runs[1])) => runs[2].results.bucketsCreated = 0

SameKey(i, j) == SkuLabel(files[i]) = SkuLabel(files[j])

\* The upsert of file i of the current run returned a row
UpsertSucceeded(i) == Performed(trace[i].steps, "upsert") /\ trace[i].failedAt # "upsert"

\* The cache holds exactly the keys upserted with success in the current
\* run, each with the id of the media_buckets row of that key
CacheFromThisRun ==
    /\ CachedKeys = { SkuLabel(files[i]) : i \in { j \in 1..Len(trace) : UpsertSucceeded(j) } }
    /\ \A c \in bucketCache : \E r \in mediaBuckets : r.id = c.id /\ r.sku_label = c.sku

\* C19 (as claimed): within one run, for files sharing a grouping key the
\* owner lookup and the upsert are each performed at most once; the cache is
\* fresh per run and holds only handles of successful upserts of that run.
C19_LookupAndUpsertOncePerKey ==
    /\ \A i, j \in 1..Len(trace) :
          (i < j /\ SameKey(i, j))
              => /\ ~(Performed(trace[i].steps, "lookup") /\ Performed(trace[j].steps, "lookup"))
                 /\ ~(Performed(trace[i].steps, "upsert") /\ Performed(trace[j].steps, "upsert"))
    /\ CacheFromThisRun

\* C19 (amended): within one run, once the upsert for a grouping key has
\* succeeded, every later file with that key is served from the cache with
\* neither a lookup nor an upsert, so a key is upserted with success at most
\* once per run; the cache is fresh per run and holds only handles of
\* successful upserts of that run. (A key without owner, or whose upsert
\* failed, is not cached and is looked up again for each later file.)
C19_CacheServesResolvedKeys ==
    /\ \A i, j \in 1..Len(trace) :
          (i < j /\ SameKey(i, j) /\ UpsertSucceeded(i))
              => /\ ~Performed(trace[j].steps, "lookup")
                 /\ ~Performed(trace[j].steps, "upsert")
    /\ CacheFromThisRun

C19_Witness ==
    /\ Len(runs) = 2
    /\ Len(trace) = 2
    /\ SameKey(1, 2)
    /\ runs[1].trace[1].steps = <<"download", "lookup", "upsert", "upload", "insert">>
    /\ trace[1].steps = <<"download", "lookup", "upsert", "upload", "insert">>
    /\ trace[2].steps = <<"download", "upload", "insert">>
    /\ CachedKeys = {"A"}

----------------------------------------------------------------------------
(* products/validate.ts: JavaScript values, normalizeTags, buildUpdatePayload *)

MaxTagChars == 3
MaxTags == 2

\* A JavaScript value is a record tagged with its type; a string carries its
\* characters, an array its items. Absent marks a key an object does not have.
Absent == [t |-> "absent"]
Undefined == [t |-> "undefined"]
JsNull == [t |-> "null"]
Str(chars) == [t |-> "string", v |-> chars]
Num(n) == [t |-> "number", v |-> n]
Arr(items) == [t |-> "array", v |-> items]

SeqsUpTo(S, n) == UNION { [1..k -> S] : k \in 0..n }

\* !v
Falsy(v) ==
    \/ v.t \in {"undefined", "null"}
    \/ v.t = "string" /\ v.v = <<>>
    \/ v.t = "number" /\ v.v = 0

IsSpace(c) == c = " "

RECURSIVE TrimStart(_)
TrimStart(s) == IF Len(s) > 0 /\ IsSpace(Head(s)) THEN TrimStart(Tail(s)) ELSE s

RECURSIVE TrimEnd(_)
TrimEnd(s) ==
    IF Len(s) > 0 /\ IsSpace(s[Len(s)]) THEN TrimEnd(SubSeq(s, 1, Len(s) - 1)) ELSE s

\* String.prototype.trim
Trim(s) == TrimEnd(TrimStart(s))

\* String.prototype.split(','): cur is the segment being read
RECURSIVE SplitFrom(_, _)
SplitFrom(s, cur) ==
    IF s = <<>> THEN <<cur>>
    ELSE IF Head(s) = "," THEN <<cur>> \o SplitFrom(Tail(s), <<>>)
    ELSE SplitFrom(Tail(s), Append(cur, Head(s)))

SplitComma(s) == SplitFrom(s, <<>>)

\* Line 19: typeof t === 'string' && t.trim().length > 0
IsNonBlankString(item) == item.t = "string" /\ Len(Trim(item.v)) > 0

\* Line 21: .map((t) => t.trim()).filter(Boolean)
NonEmpty(s) == s # <<>>
TrimAll(segments) == [i \in 1..Len(segments) |-> Trim(segments[i])]
AsStrings(segments) == [i \in 1..Len(segments) |-> Str(segments[i])]

\* Lines 17-24
normalizeTags(tags) ==
    IF Falsy(tags) THEN Arr(<<>>)
    ELSE IF tags.t = "array" THEN Arr(SelectSeq(tags.v, IsNonBlankString))
    ELSE IF tags.t = "string"
         THEN Arr(AsStrings(SelectSeq(TrimAll(SplitComma(tags.v)), NonEmpty)))
    ELSE Arr(<<>>)

\* Lines 68-82: the keys buildUpdatePayload copies
UpdatableKeys ==
    {"title", "handle", "sku_label", "vendor", "product_type", "status",
     "shopify_status", "tags", "description", "description_html", "metadata",
     "shopify_product_id", "shopify_published_at"}

\* A key of a request body that is no product field
OtherKeys == {"id"}

\* key in body
In(key, body) == key \in DOMAIN body /\ body[key].t # "absent"

\* body[key]
Get(body, key) == IF In(key, body) THEN body[key] ELSE Undefined

\* v ?? null
OrNull(v) == IF v.t \in {"undefined", "null"} THEN JsNull ELSE v

\* A maybeSet that writes every key, present in the body or not
maybeSetAlways(body, key) ==
    IF key = "tags" THEN normalizeTags(Get(body, "tags"))
    ELSE OrNull(Get(body, key))

\* Lines 57-66: the value update[key] has after maybeSet(key)
maybeSet(body, key) ==
    IF In(key, body)
    THEN IF key = "tags" THEN normalizeTags(Get(body, "tags"))
         ELSE OrNull(Get(body, key))
    ELSE Absent

\* Lines 51-85 (typeof body is 'object' for an array too, which has none of
\* the keys)
buildUpdatePayload(body) ==
    IF Falsy(body) \/ body.t \notin {"object", "array"}
    THEN [error |-> "Invalid body"]
    ELSE [payload |-> [t |-> "object",
                       v |-> [k \in UpdatableKeys \cup OtherKeys |->
                                 IF k \in UpdatableKeys /\ body.t = "object"
                                 THEN maybeSet(body.v, k) ELSE Absent]]]

\* The default of status, line 38
Active == Str(<<"a", "c", "t", "i", "v", "e">>)

\* v ?? d
OrElse(v, d) == IF v.t \in {"undefined", "null"} THEN d ELSE v

\* A payload in which status has no default
createFieldAllNull(body, key) ==
    IF key = "title" THEN Get(body, "title")
    ELSE IF key = "tags" THEN normalizeTags(Get(body, "tags"))
    ELSE OrNull(Get(body, key))

\* Lines 32-46: the value of one field of the payload
createField(body, key) ==
    IF key = "title" THEN Get(body, "title")
    ELSE IF key = "status" THEN OrElse(Get(body, "status"), Active)
    ELSE IF key = "tags" THEN normalizeTags(Get(body, "tags"))
    ELSE OrNull(Get(body, key))

\* Lines 26-49. body.title of undefined or null throws a TypeError; a string,
\* a number or an array has no property title.
buildCreatePayload(body) ==
    IF body.t \in {"undefined", "null"} THEN [thrown |-> "TypeError"]
    ELSE LET fields == IF body.t = "object" THEN body.v ELSE [id |-> Absent]
             title == Get(fields, "title")
         IN IF Falsy(title) \/ title.t # "string"
            THEN [error |-> "title is required"]
            ELSE [payload |-> [t |-> "object",
                               v |-> [k \in UpdatableKeys \cup OtherKeys |->
                                         IF k \in UpdatableKeys THEN createField(fields, k)
                                         ELSE Absent]]]

\* The tags a request body can carry
TagChars == {"x", " ", ","}
TagItems == { Str(<<"x">>), Str(<<" ">>), Str(<<" ", "x">>), Num(1) }
TagInputs ==
    { Undefined, JsNull, Num(1) }
    \cup { Str(s) : s \in SeqsUpTo(TagChars, MaxTagChars) }
    \cup { Arr(a) : a \in SeqsUpTo(TagItems, MaxTags) }

\* Request bodies: objects with any of six keys, and values that are no object
Bodies ==
    { [t |-> "object", v |-> b] :
        b \in [ title : {Absent, Undefined, JsNull, Str(<<>>), Str(<<"x">>), Num(1)},
                handle : {Absent, JsNull, Str(<<"x">>)},
                status : {Absent, JsNull, Str(<<"x">>)},
                metadata : {Absent, Undefined, Num(1)},
                tags : {Absent} \cup TagInputs,
                id : {Absent, Num(1)} ] }
    \cup { Undefined, JsNull, Str(<<"x">>) }

CallBuildUpdatePayload ==
    /\ valPc = "idle"
    /\ valPc' = "buildUpdatePayload"
    /\ valResult' = buildUpdatePayload(valArg)
    /\ UNCHANGED valArg
    /\ UNCHANGED <<clientVars, pgVars, imVars, adminVars>>

CallBuildCreatePayload ==
    /\ valPc = "idle"
    /\ valPc' = "buildCreatePayload"
    /\ valResult' = buildCreatePayload(valArg)
    /\ UNCHANGED valArg
    /\ UNCHANGED <<clientVars, pgVars, imVars, adminVars>>

CallNormalizeTags ==
    /\ valPc = "idle"
    /\ valPc' = "normalizeTags"
    /\ valResult' = normalizeTags(valArg)
    /\ UNCHANGED valArg
    /\ UNCHANGED <<clientVars, pgVars, imVars, adminVars>>

InitValidate ==
    /\ InitClient
    /\ InitPaginate
    /\ InitImportIdle
    /\ source = SinglePage
    /\ valPc = "idle"
    /\ valArg \in Bodies \cup TagInputs
    /\ valResult = Null
    /\ InitAdminIdle

NextValidate ==
    \/ CallBuildUpdatePayload
    \/ CallBuildCreatePayload
    \/ CallNormalizeTags

SpecValidate == InitValidate /\ [][NextValidate]_vars

\* The keys of an object value
KeysOf(obj) == { k \in DOMAIN obj.v : obj.v[k].t # "absent" }

\* The call of buildUpdatePayload on an object has returned
UpdateBuilt == valPc = "buildUpdatePayload" /\ valArg.t = "object"

\* C20: buildUpdatePayload keeps only provided fields: the keys of the payload
\* are exactly the updatable product fields that are keys of the body (an
\* absent field does not appear, a key that is no product field is dropped),
\* a present field other than tags holding null or undefined is written as
\* null and any other value as it is, and tags is written as the list of
\* non-blank strings normalizeTags makes of it ({title: 'x', tags: ['x']}
\* gives {title: 'x', tags: ['x']}; tags ' x,' gives ['x']; tags null
\* gives []).
C20_UpdateKeepsOnlyProvidedFields ==
    UpdateBuilt
        => LET body == valArg
               payload == valResult.payload
           IN /\ DOMAIN valResult = {"payload"}
              /\ KeysOf(payload) = KeysOf(body) \cap UpdatableKeys
              /\ \A k \in KeysOf(payload) \ {"tags"} :
                    IF body.v[k].t \in {"undefined", "null"}
                    THEN payload.v[k] = JsNull
                    ELSE payload.v[k] = body.v[k]
              /\ "tags" \in KeysOf(body)
                    => /\ payload.v.tags.t = "array"
                       /\ \A i \in 1..Len(payload.v.tags.v) :
                             /\ payload.v.tags.v[i].t = "string"
                             /\ Trim(payload.v.tags.v[i].v) # <<>>
                       /\ body.v.tags = Arr(<<Str(<<"x">>)>>)
                             => payload.v.tags = Arr(<<Str(<<"x">>)>>)
                       /\ body.v.tags = Str(<<" ", "x", ",">>)
                             => payload.v.tags = Arr(<<Str(<<"x">>)>>)
                       /\ body.v.tags.t = "null" => payload.v.tags = Arr(<<>>)

C20_Witness ==
    /\ UpdateBuilt
    /\ valArg.v.title = Str(<<"x">>)
    /\ valArg.v.tags = Arr(<<Str(<<"x">>)>>)
    /\ valArg.v.handle = JsNull
    /\ valArg.v.metadata = Absent
    /\ valArg.v.id = Num(1)
    /\ KeysOf(valResult.payload) = {"title", "tags", "handle"}
    /\ valResult.payload.v.handle = JsNull
    /\ valResult.payload.v.tags = Arr(<<Str(<<"x">>)>>)

\* The call of buildCreatePayload on an object has returned
CreateBuilt == valPc = "buildCreatePayload" /\ valArg.t = "object"

\* The title of the body is missing, empty or not a string
NoTitle(body) ==
    \/ "title" \notin KeysOf(body)
    \/ body.v.title.t # "string"
    \/ body.v.title.v = <<>>

\* C21: buildCreatePayload returns the error 'title is required' and no
\* payload exactly when title is missing, empty or not a string; otherwise it
\* returns a payload and no error, in which each of the 13 product fields is
\* present, title is the given one, status is the given one or 'active', tags
\* is the empty list when omitted and every other omitted field is null.
C21_CreateRequiresTitleAndFillsDefaults ==
    CreateBuilt
        => LET body == valArg
           IN IF NoTitle(body)
              THEN valResult = [error |-> "title is required"]
              ELSE /\ DOMAIN valResult = {"payload"}
                   /\ KeysOf(valResult.payload) = UpdatableKeys
                   /\ Cardinality(KeysOf(valResult.payload)) = 13
                   /\ valResult.payload.v.title = body.v.title
                   /\ \A k \in UpdatableKeys \ {"title"} :
                         (k \notin KeysOf(body) \/ body.v[k].t \in {"undefined", "null"})
                             => valResult.payload.v[k] =
                                   (IF k = "status" THEN Active
                                    ELSE IF k = "tags" THEN Arr(<<>>)
                                    ELSE JsNull)
                   /\ \A k \in (KeysOf(body) \cap UpdatableKeys) \ {"title", "tags"} :
                         body.v[k].t \notin {"undefined", "null"}
                             => valResult.payload.v[k] = body.v[k]

C21_Witness ==
    /\ CreateBuilt
    /\ KeysOf(valArg) = {"title"}
    /\ valArg.v.title = Str(<<"x">>)
    /\ valResult.payload.v.status = Active
    /\ valResult.payload.v.tags = Arr(<<>>)
    /\ valResult.payload.v.handle = JsNull
    /\ valResult.payload.v.shopify_product_id = JsNull

\* The call of normalizeTags has returned
TagsNormalized == valPc = "normalizeTags"

\* C22 (as claimed; the code violates it): for a comma-separated string
\* normalizeTags returns its segments trimmed, blank segments removed, in
\* order (' x,' gives [x]; 'x,x' gives [x, x]; ' , ' gives []); for every
\* input every returned tag is a string that is non-blank and has no leading
\* or trailing whitespace; and applying normalizeTags to its result returns
\* the same list.
C22_TagsTrimmedNonBlankIdempotent ==
    TagsNormalized
        => /\ valResult.t = "array"
           /\ valArg = Str(<<" ", "x", ",">>) => valResult = Arr(<<Str(<<"x">>)>>)
           /\ valArg = Str(<<"x", ",", "x">>) => valResult = Arr(<<Str(<<"x">>), Str(<<"x">>)>>)
           /\ valArg = Str(<<" ", ",", " ">>) => valResult = Arr(<<>>)
           /\ \A i \in 1..Len(valResult.v) :
                 /\ valResult.v[i].t = "string"
                 /\ valResult.v[i].v # <<>>
                 /\ ~IsSpace(valResult.v[i].v[1])
                 /\ ~IsSpace(valResult.v[i].v[Len(valResult.v[i].v)])
           /\ normalizeTags(valResult) = valResult

----------------------------------------------------------------------------
(* Observations on media_assets *)

Succeeded(tr) == { i \in 1..Len(tr) : tr[i].outcome = "succeeded" }

\* The file keys of the files among the first n of a trace whose three
\* sub-steps succeeded, in order
RECURSIVE SucceededKeys(_, _)
SucceededKeys(tr, n) ==
    IF n = 0 THEN <<>>
    ELSE IF tr[n].outcome = "succeeded"
         THEN Append(SucceededKeys(tr, n - 1), files[tr[n].file].path)
    ELSE SucceededKeys(tr, n - 1)

\* The same for the completed runs, and for the run in progress
RECURSIVE PastKeys(_)
PastKeys(k) ==
    IF k = 0 THEN <<>>
    ELSE PastKeys(k - 1) \o SucceededKeys(runs[k].trace, Len(runs[k].trace))

CurrentKeys == IF imPc = "loop" THEN SucceededKeys(trace, Len(trace)) ELSE <<>>

AssetKeys == [i \in 1..Len(mediaAssets) |-> mediaAssets[i].file_key]

----------------------------------------------------------------------------
(* Observations on the order of the steps *)

\* The bucket of file i was resolved: by its own upsert, or by the cache
\* filled by the upsert of an earlier file with the same key
ResolvedFor(i) ==
    \/ UpsertSucceeded(i)
    \/ /\ ~Performed(trace[i].steps, "lookup")
       /\ ~Performed(trace[i].steps, "upsert")
       /\ \E j \in 1..(i - 1) : SameKey(j, i) /\ UpsertSucceeded(j)

\* C24: files are processed one after the other and each in step order: the
\* entries of the trace are files 1, 2, ... in order and file idx is not begun
\* before all files before it have their outcome; within a file the download
\* comes first, the upload is attempted only after the bucket was resolved
\* (by the cache or by a successful upsert earlier in the same file), and the
\* insert is attempted only right after an upload that succeeded.
C24_SequentialInStepOrder ==
    /\ imPc \in {"loop", "done"} => Len(trace) = idx - 1
    /\ \A i \in 1..Len(trace) :
          LET st == trace[i].steps
          IN /\ trace[i].file = i
             /\ trace[i].outcome \in {"succeeded", "skipped", "failed"}
             /\ st[1] = "download"
             /\ \A p \in 1..Len(st) :
                   /\ st[p] = "upload"
                         => /\ ResolvedFor(i)
                            /\ \A q \in 1..Len(st) : st[q] \in {"lookup", "upsert"} => q < p
                   /\ st[p] = "insert"
                         => /\ p > 1
                            /\ st[p - 1] = "upload"
                            /\ trace[i].failedAt # "upload"

C24_Witness ==
    /\ imPc = "done"
    /\ Len(trace) = 3
    /\ SameKey(1, 2)
    /\ trace[1].steps = <<"download", "lookup", "upsert", "upload", "insert">>
    /\ trace[2].steps = <<"download", "upload">>
    /\ trace[2].failedAt = "upload"
    /\ trace[3].steps = <<"download", "lookup", "upsert">>
    /\ trace[3].failedAt = "upsert"

----------------------------------------------------------------------------
(* Observations on the end of a pagination walk *)

\* C25 (as claimed; the code violates it): paginate produces a finite
\* sequence: the walk ends exactly at the first response with hasNextPage =
\* false, and it never sends the same `after` twice; in particular after a
\* response with hasNextPage = true and endCursor = null it does not request
\* the first page again. (The source answers a repeated request with the
\* same page, so a repeated request is a walk that repeats without end.)
C25_PaginateNeverRepeatsARequest ==
    /\ pgPc = "done"
          => /\ ~Served(Answered).hasNextPage
             /\ \A j \in 1..(Answered - 1) : Served(j).hasNextPage
    /\ \A i, j \in 1..Len(pgAfters) : i < j => pgAfters[i] # pgAfters[j]

----------------------------------------------------------------------------
(* Observations on the computed wait *)

\* C26 (as claimed; the code violates it): for every positive cost and every
\* budget state set by a server report, a restoreRate of 0 and a
\* currentlyAvailable above 1000 or below 0 included, the wait
\* waitForRateLimit computes is a finite, non-negative duration.
C26_ComputedWaitIsFinite ==
    JustChecked
        => LET w == ComputedWait(rateLimitState, qCost, now - qLog[1].ms)
           IN /\ qCost > 0
              /\ w.finite
              /\ w.ms >= 0
              /\ qLog[1].ms >= 0

----------------------------------------------------------------------------
(* Observations on the number of requests of a call *)

\* C27: one call of query sends at most `retries` requests, whatever the
\* outcomes of the attempts; a request that returns data is the last event of
\* the call and the call has returned; a call goes on or has raised only
\* after requests without data; with retries = 0 the call sends no request
\* and raises.
C27_AtMostRetriesRequests ==
    /\ Len(RequestEvents(qLog)) <= qRetries
    /\ \A j \in 1..Len(qLog) :
          (qLog[j].type = "request" /\ qLog[j].outcome = "data")
              => (j = Len(qLog) /\ qPc = "returned")
    /\ qPc = "returned" => qLog[Len(qLog)].outcome = "data"
    /\ qPc = "attempt" => Len(RequestEvents(qLog)) < qRetries
    /\ (qPc # "idle" /\ qRetries = 0)
          => /\ qPc = "raised"
             /\ qResult = "Unknown error"
             /\ RequestEvents(qLog) = <<>>

C27_Witness ==
    /\ qPc = "raised"
    /\ qRetries = 3
    /\ Len(RequestEvents(qLog)) = 3
    /\ RequestEvents(qLog)[1].outcome = "http"
    /\ RequestEvents(qLog)[2].outcome = "throttled"
    /\ RequestEvents(qLog)[3].outcome = "graphql"

----------------------------------------------------------------------------
(* Observations on the report *)

\* C28: at the end of every run assetsCreated + skippedNoProduct + failed is
\* total, assetsCreated is at most uploaded, and errors has one entry per
\* failed file.
C28_ReportBalances ==
    imPc = "done"
        => /\ results.assetsCreated + results.skippedNoProduct + results.failed = results.total
           /\ results.assetsCreated <= results.uploaded
           /\ Len(results.errors) = results.failed
           /\ results.total = Len(files)

C28_Witness ==
    /\ imPc = "done"
    /\ results.total = 3
    /\ results.assetsCreated = 1
    /\ results.uploaded = 2
    /\ results.skippedNoProduct = 0
    /\ results.failed = 2
    /\ Len(results.errors) = 2
    /\ trace[1].failedAt = "download"

----------------------------------------------------------------------------
(* Observations on the checks of the import request *)

\* C29: the handler lists the tree and touches storage and tables only for a
\* request with a folderId, a configured bucket and an authenticated user: a
\* request without folderId or without bucket is answered with 400, one with
\* both and without user with 401, each without any effect; a request that
\* got as far as the listing (answered 500, or 200 after the loop) had all
\* three.
C29_NoEffectWithoutFolderBucketUser ==
    [][ LET NoImportEffect == /\ imPc' = "rejected"
                              /\ files' = files
                              /\ trace' = <<>>
                              /\ mediaBuckets' = mediaBuckets
                              /\ mediaAssets' = mediaAssets
                              /\ storage' = storage
        IN \A req \in Requests :
          ImportStart(req, files')
              => /\ (~req.folderId \/ ~req.bucket) => (imStatus' = 400 /\ NoImportEffect)
                 /\ (req.folderId /\ req.bucket /\ ~req.user)
                       => (imStatus' = 401 /\ NoImportEffect)
                 /\ imStatus' \notin {400, 401}
                       => (req.folderId /\ req.bucket /\ req.user) ]_vars

C29_Witness ==
    /\ imPc = "rejected"
    /\ imStatus = 401
    /\ files = <<>>
    /\ trace = <<>>
    /\ mediaBuckets = {}
    /\ mediaAssets = <<>>
    /\ storage = {}

----------------------------------------------------------------------------
(* The Shopify import request: POST of the import route *)

MaxImportCalls == 2

Admin == Str(<<"a", "d", "m", "i", "n">>)

\* Values of users.auth_user_id and of users.role
AuthIds == {"u1", "u2"}
Roles ==
    {Admin, Str(<<"A", "d", "m", "i", "n">>), Str(<<"e", "d", "i", "t", "o", "r">>), JsNull}

\* .from('users').select('role').eq('auth_user_id', id).single(): the row if
\* there is exactly one, else null
SingleUser(table, id) ==
    LET rows == { r \in table : r.auth_user_id = id }
    IN IF Cardinality(rows) = 1
       THEN [t |-> "object", v |-> [role |-> (CHOOSE r \in rows : TRUE).role]]
       ELSE JsNull

\* A check that admits every caller with a row
IsAdminAnyRow(appUser) == appUser # JsNull

\* The negation of appUser?.role !== 'admin'; appUser?.role is undefined
\* when appUser is null
IsAdmin(appUser) ==
    (IF appUser = JsNull THEN Undefined ELSE appUser.v.role) = Admin

\* POST: the session's user u (Null without a session) asks for an import;
\* importOk tells whether importAllProducts resolves or throws
ShopifyImportPOST(u, importOk) ==
    /\ importsStarted < MaxImportCalls
    /\ authUser' = u
    /\ IF u = Null
       THEN /\ shopifyStatus' = 401
            /\ UNCHANGED importsStarted
       ELSE IF ~IsAdmin(SingleUser(users, u))
       THEN /\ shopifyStatus' = 403
            /\ UNCHANGED importsStarted
       ELSE /\ importsStarted' = importsStarted + 1
            /\ shopifyStatus' = IF importOk THEN 200 ELSE 500
    /\ UNCHANGED users
    /\ UNCHANGED <<clientVars, pgVars, imVars, valVars>>

InitShopifyImport ==
    /\ InitClient
    /\ InitPaginate
    /\ InitImportIdle
    /\ InitValidateIdle
    /\ source = SinglePage
    /\ users \in { t \in SUBSET [auth_user_id : AuthIds, role : Roles] :
                      \A r1, r2 \in t : r1.auth_user_id = r2.auth_user_id => r1 = r2 }
    /\ authUser = Null
    /\ shopifyStatus = 0
    /\ importsStarted = 0

NextShopifyImport ==
    \E u \in AuthIds \cup {Null}, importOk \in BOOLEAN : ShopifyImportPOST(u, importOk)

SpecShopifyImport == InitShopifyImport /\ [][NextShopifyImport]_vars

\* C30: a request without a user is answered 401 and one of a user without a
\* users row of role 'admin' is answered 403, neither starting
\* importAllProducts; importAllProducts starts only for a user whose users row
\* has role 'admin'.
C30_ImportOnlyForAdmin ==
    [][ LET HasAdminRow(id) == \E r \in users : r.auth_user_id = id /\ r.role = Admin
        IN
        /\ authUser' = Null
            => (shopifyStatus' = 401 /\ importsStarted' = importsStarted)
        /\ (authUser' # Null /\ ~HasAdminRow(authUser'))
            => (shopifyStatus' = 403 /\ importsStarted' = importsStarted)
        /\ importsStarted' # importsStarted
            => (authUser' # Null /\ HasAdminRow(authUser'))
        /\ (authUser' # Null /\ HasAdminRow(authUser'))
            => (importsStarted' = importsStarted + 1 /\ shopifyStatus' \in {200, 500})
      ]_vars

C30_Witness ==
    /\ shopifyStatus = 403
    /\ authUser # Null
    /\ \E r \in users : r.auth_user_id = authUser /\ r.role = Str(<<"e", "d", "i", "t", "o", "r">>)
    /\ importsStarted = 1

====
